---------------------------- MODULE Spec2Model ----------------------------
(***************************************************************************)
(* A model of hiepita's temperature-series composition: getamedas.py       *)
(* (window adjustment, monthly/pentad page assembly, cleaning, multi-year  *)
(* averaging) and averagetemplist.py (forecast slicing and the six-way     *)
(* past / forecast / normal partition of a requested date span).           *)
(*                                                                         *)
(* Dates are proleptic Gregorian ordinals, as datetime.date.toordinal();   *)
(* the state shows them as <<year, month, day>>.  Numbers are integers in  *)
(* units of 10^-FracDigits.  A table is the sequence of the cells of its   *)
(* mean-temperature column, the one column averagetemplist reads; every    *)
(* row operation of the code (concatenate, drop, slice, stack) acts on     *)
(* whole rows, so the other four columns follow the same positions.        *)
(***************************************************************************)
EXTENDS Integers, Sequences, FiniteSets, TLC

VARIABLES
    pc,         \* which call is in progress and whether it has returned
    today,      \* date.today(), as <<year, month, day>> like every date variable
    b_date,     \* argument b_date of get_amedas_data / ave_temp_list
    e_date,     \* argument e_date of get_amedas_data
    is_daily,   \* argument is_daily of get_amedas_data
    years,      \* argument years / n_years
    adj,        \* the window returned by date_adjust
    df_l,       \* get_amedas_data's list of per-year tables
    ret,        \* the value a call returned, or the exception it raised
    length,     \* argument length of ave_temp_list
    kase,       \* the branch of ave_temp_list's if/elif chain that ran
    calls,      \* the source calls ave_temp_list issued, in order
    page,       \* forecast page: the high-temp and low-temp span lists
    b_day,      \* argument b_day of forecast_temp_list
    e_day,      \* argument e_day of forecast_temp_list
    dfl,        \* argument of mean_df
    raw_df,     \* argument of clean_df
    day1,       \* argument of hanjun (first call)
    day2        \* argument of hanjun (second call)

vars == <<pc, today, b_date, e_date, is_daily, years, adj, df_l, ret, length,
          kase, calls, page, b_day, e_day, dfl, raw_df, day1, day2>>

(***************************************************************************)
(* datetime.date arithmetic                                                *)
(***************************************************************************)
IsLeap(y) == (y % 4 = 0) /\ ((y % 100 # 0) \/ (y % 400 = 0))

DaysInMonth(y, m) ==
    IF m = 2 THEN (IF IsLeap(y) THEN 29 ELSE 28)
    ELSE IF m \in {4, 6, 9, 11} THEN 30 ELSE 31

DaysBeforeYear(y) ==
    (y - 1) * 365 + ((y - 1) \div 4) - ((y - 1) \div 100) + ((y - 1) \div 400)

DaysBeforeMonth(y, m) ==
    <<0, 31, 59, 90, 120, 151, 181, 212, 243, 273, 304, 334>>[m]
        + (IF m > 2 /\ IsLeap(y) THEN 1 ELSE 0)

\* date(y, m, d) as an ordinal; the caller checks ValidDate first
Date(y, m, d) == DaysBeforeYear(y) + DaysBeforeMonth(y, m) + d

ValidDate(y, m, d) == m \in 1..12 /\ d >= 1 /\ d <= DaysInMonth(y, m)

\* date.fromordinal(n) as <<year, month, day>>
FromOrdinal(n) ==
    LET y == CHOOSE y \in (n \div 366)..((n \div 365) + 1) :
                 DaysBeforeYear(y) < n /\ n <= DaysBeforeYear(y + 1)
        r == n - DaysBeforeYear(y)
        m == CHOOSE m \in 1..12 :
                 DaysBeforeMonth(y, m) < r /\ r <= DaysBeforeMonth(y, m) + DaysInMonth(y, m)
    IN  <<y, m, r - DaysBeforeMonth(y, m)>>

\* FromOrdinal tabulated once for the years the model's dates can reach
CalendarYears == 2018..2028
Calendar ==
    [n \in (DaysBeforeYear(2018) + 1)..DaysBeforeYear(2028 + 1) |-> FromOrdinal(n)]

\* a <<year, month, day>> state value as an ordinal
Ord(d) == Date(d[1], d[2], d[3])

YearOf(n) == Calendar[n][1]
MonthOf(n) == Calendar[n][2]
DayOf(n) == Calendar[n][3]

\* strftime("%m/%d") of a date, as the number month * 100 + day
MonthDay(n) == MonthOf(n) * 100 + DayOf(n)

(***************************************************************************)
(* Python and numpy primitives                                             *)
(***************************************************************************)
Min(a, b) == IF a < b THEN a ELSE b
Max(a, b) == IF a > b THEN a ELSE b

\* seq[start:stop] with Python's treatment of negative and overlong indices
PySlice(seq, start, stop) ==
    LET n  == Len(seq)
        lo == IF start < 0 THEN Max(start + n, 0) ELSE Min(start, n)
        hi == IF stop < 0 THEN Max(stop + n, 0) ELSE Min(stop, n)
    IN  IF lo >= hi THEN <<>> ELSE SubSeq(seq, lo + 1, hi)

\* a cleaned cell: a number (in units of 10^-FracDigits) or the missing marker np.nan
Num(v) == [num |-> v]
NaN == [nan |-> TRUE]
IsNum(c) == "num" \in DOMAIN c
IsNaN(c) == "nan" \in DOMAIN c

Returned(v) == [ok |-> TRUE, val |-> v]
Raised(e) == [ok |-> FALSE, err |-> e]

(***************************************************************************)
(* Bounds of the model                                                     *)
(***************************************************************************)
\* decimal places a number carries; values are integers in units of 10^-FracDigits
FracDigits == 3
\* longest raw text cell
MaxLen == 3

Scale == 10 ^ FracDigits
Tenth == 10 ^ (FracDigits - 1)

(***************************************************************************)
(* getamedas.clean_df                                                      *)
(***************************************************************************)
\* a raw cell is a number read_html already parsed, or text
Text(s) == [text |-> s]
IsText(c) == "text" \in DOMAIN c

Digits == {"1", "2"}
DigitVal(ch) == IF ch = "1" THEN 1 ELSE 2

\* re.sub(r"\)", "", s): every ")" removed, wherever it stands
RECURSIVE StripParen(_)
StripParen(s) ==
    IF s = <<>> THEN <<>>
    ELSE IF Head(s) = ")" THEN StripParen(Tail(s))
    ELSE <<Head(s)>> \o StripParen(Tail(s))

\* re.sub(r" \]", "", s): every " ]" removed, scanning left to right
RECURSIVE StripBracket(_)
StripBracket(s) ==
    IF Len(s) < 2 THEN s
    ELSE IF s[1] = " " /\ s[2] = "]" THEN StripBracket(SubSeq(s, 3, Len(s)))
    ELSE <<Head(s)>> \o StripBracket(Tail(s))

RECURSIVE LStrip(_)
LStrip(s) == IF s # <<>> /\ Head(s) = " " THEN LStrip(Tail(s)) ELSE s

RECURSIVE RStrip(_)
RStrip(s) ==
    IF s # <<>> /\ s[Len(s)] = " " THEN RStrip(SubSeq(s, 1, Len(s) - 1)) ELSE s

RECURSIVE DigitsVal(_)
DigitsVal(s) ==
    IF s = <<>> THEN 0 ELSE DigitsVal(SubSeq(s, 1, Len(s) - 1)) * 10 + DigitVal(s[Len(s)])

AllDigits(s) == \A i \in 1..Len(s) : s[i] \in Digits

\* pd.to_numeric(errors="coerce") on one text cell: surrounding blanks are
\* skipped, then [sign] digits [. digits] with at least one digit; anything
\* else is coerced to NaN
to_numeric(s) ==
    LET t    == RStrip(LStrip(s))
        neg  == t # <<>> /\ Head(t) = "-"
        body == IF neg THEN Tail(t) ELSE t
        dots == {i \in 1..Len(body) : body[i] = "."}
        ip   == IF dots = {} THEN body
                ELSE SubSeq(body, 1, (CHOOSE i \in dots : TRUE) - 1)
        fp   == IF dots = {} THEN <<>>
                ELSE SubSeq(body, (CHOOSE i \in dots : TRUE) + 1, Len(body))
        ok   == /\ Cardinality(dots) <= 1
                /\ AllDigits(ip) /\ AllDigits(fp)
                /\ Len(ip) + Len(fp) >= 1
        mag  == DigitsVal(ip) * Scale + DigitsVal(fp) * (10 ^ (FracDigits - Len(fp)))
    IN  IF ok THEN Num(IF neg THEN 0 - mag ELSE mag) ELSE NaN

\* the four steps of clean_df on one cell; numeric cells pass unchanged
clean_cell(c) ==
    LET c1 == IF IsText(c) /\ c.text \in {<<"/", "/">>, <<"#">>} THEN NaN ELSE c
        c2 == IF IsText(c1) /\ c1.text = <<"-", "-">> THEN Num(0) ELSE c1
        c3 == IF IsText(c2) THEN Text(StripBracket(StripParen(c2.text))) ELSE c2
    IN  IF IsText(c3) THEN to_numeric(c3.text) ELSE c3

clean_df(df) == [i \in 1..Len(df) |-> clean_cell(df[i])]

(***************************************************************************)
(* getamedas.date_adjust                                                   *)
(***************************************************************************)
ClampDays == 367
ClampTo == 364

date_adjust(b, e, daily, t) ==
    LET e1 == IF e < t THEN e ELSE t - 1
        b1 == IF b < e1 THEN b ELSE e1 - 1
        e2 == IF e1 - b1 < ClampDays THEN e1 ELSE b1 + ClampTo
    IN  IF ~daily /\ t - e2 < 5
        THEN LET d_days == IF (DayOf(t) % 5) # 0 THEN DayOf(t) % 5 ELSE 5
                 e3     == t - d_days
                 b2     == IF b1 < e3 THEN b1 ELSE e3 - 1
             IN  <<b2, e3>>
        ELSE <<b1, e2>>

(***************************************************************************)
(* getamedas: daily pages                                                  *)
(***************************************************************************)
\* The page scrape_amedas returns for (year, month) when the page is
\* complete: one row per day of the month.  The row of day d holds
\* the number month * 100 + d (in tenths), so a row names its own date.
scrape_daily(year, month) ==
    [d \in 1..DaysInMonth(year, month) |-> Num((month * 100 + d) * Tenth)]

\* df.drop(index=[28], errors="ignore"): the row labelled 28 is the 29th
DropIndex28(df) == IF Len(df) >= 29 THEN SubSeq(df, 1, 28) \o SubSeq(df, 30, Len(df)) ELSE df

get_1month_df(year, month) ==
    LET df == clean_df(scrape_daily(year, month))
    IN  IF month = 2 THEN DropIndex28(df) ELSE df

\* range(lo, hi) of months of one year, as <<year, month>> pairs
MonthRange(year, lo, hi) == [k \in 1..Max(hi - lo, 0) |-> <<year, lo + k - 1>>]

\* the pages get_months_df fetches, in order
months_pages(b, e, year) ==
    IF YearOf(b) = YearOf(e)
    THEN MonthRange(year, MonthOf(b), MonthOf(e) + 1)
    ELSE MonthRange(year, MonthOf(b), 13) \o MonthRange(year + 1, 1, MonthOf(e) + 1)

\* get_1month_df tabulated once for the years the model's dates can reach
MonthTable == [y \in CalendarYears |-> [m \in 1..12 |-> get_1month_df(y, m)]]

\* pd.concat of the monthly tables
RECURSIVE ConcatPages(_)
ConcatPages(pages) ==
    IF pages = <<>> THEN <<>>
    ELSE MonthTable[Head(pages)[1]][Head(pages)[2]] \o ConcatPages(Tail(pages))

get_months_df(b, e, year) ==
    LET df   == ConcatPages(months_pages(b, e, year))
        days == e - b
    IN  PySlice(df, DayOf(b) - 1, DayOf(b) + days)

(***************************************************************************)
(* getamedas: pentad pages                                                 *)
(***************************************************************************)
\* variant of hanjun that divides the day itself: day 5 falls into pentad 2
hanjun_floor(day) == IF day <= 30 THEN (day \div 5) + 1 ELSE 6

hanjun(day) == IF day <= 30 THEN ((day - 1) \div 5) + 1 ELSE 6

\* The yearly pentad page: six rows per month; the row of pentad p of
\* month m holds the number m * 10 + p
scrape_mb5daily(year) ==
    [i \in 1..(12 * 6) |->
        Num(((((i - 1) \div 6) + 1) * 10 + (((i - 1) % 6) + 1)) * Tenth)]

get_harf_df(b, e, year) ==
    LET df0 == scrape_mb5daily(year)
        df1 == IF YearOf(b) # YearOf(e) THEN df0 \o scrape_mb5daily(year + 1) ELSE df0
        df  == clean_df(df1)
    IN  PySlice(df, (MonthOf(b) - 1) * 6 + hanjun(DayOf(b)) - 1,
                Len(df) - (13 - MonthOf(e)) * 6 + hanjun(DayOf(e)))

(***************************************************************************)
(* getamedas.mean_df                                                       *)
(***************************************************************************)
RECURSIVE SumSeq(_)
SumSeq(s) == IF s = <<>> THEN 0 ELSE Head(s) + SumSeq(Tail(s))

\* np.round(s / n, 1) for a sum s of n values: the nearest tenth, a tie
\* going to the even tenth
RoundTenth(s, n) ==
    LET d == n * Tenth
        q == s \div d
        r == s - q * d
    IN  IF 2 * r < d THEN q * Tenth
        ELSE IF 2 * r > d THEN (q + 1) * Tenth
        ELSE IF q % 2 = 0 THEN q * Tenth ELSE (q + 1) * Tenth

\* the non-missing values at one position, in year order
PresentAt(arrays, i) ==
    LET RECURSIVE Pick(_)
        Pick(k) == IF k > Len(arrays) THEN <<>>
                   ELSE (IF IsNum(arrays[k][i]) THEN <<arrays[k][i].num>> ELSE <<>>)
                            \o Pick(k + 1)
    IN  Pick(1)

\* variant of nanmean that takes a missing value as 0.0 (np.mean of nan_to_num)
nanmean_count_all(arrays, i) ==
    LET RECURSIVE Zeroed(_)
        Zeroed(k) == IF k > Len(arrays) THEN <<>>
                     ELSE <<IF IsNum(arrays[k][i]) THEN arrays[k][i].num ELSE 0>>
                              \o Zeroed(k + 1)
    IN  Num(RoundTenth(SumSeq(Zeroed(1)), Len(arrays)))

\* np.round(np.nanmean(array_3d, axis=0), 1) at one position
nanmean(arrays, i) ==
    LET vals == PresentAt(arrays, i)
    IN  IF vals = <<>> THEN NaN ELSE Num(RoundTenth(SumSeq(vals), Len(vals)))

mean_df(tables) ==
    IF tables = <<>> \/ \E k \in 1..Len(tables) : Len(tables[k]) # Len(tables[1])
    THEN Raised("ValueError: np.stack")   \* no arrays, or shapes differ
    ELSE Returned([i \in 1..Len(tables[1]) |-> nanmean(tables, i)])

(***************************************************************************)
(* getamedas.date_index, getamedas.get_amedas_data                         *)
(***************************************************************************)
date_index(b, e) == [k \in 1..Max(e - b + 1, 0) |-> MonthDay(b + k - 1)]

\* range(b_date.year + 1 - years, b_date.year + 1)
YearRange(b, n) == [k \in 1..Max(n, 0) |-> YearOf(b) - n + k]

\* the tables of the years ys[k..], in order
RECURSIVE fetch_years(_, _, _, _)
fetch_years(w, ys, k, daily) ==
    IF k > Len(ys) THEN <<>>
    ELSE <<IF daily THEN get_months_df(w[1], w[2], ys[k])
           ELSE get_harf_df(w[1], w[2], ys[k])>> \o fetch_years(w, ys, k + 1, daily)

\* df = mean_df(df_l); df.index = date_index(b_date, e_date) when daily
index_df(w, tabs, m, daily) ==
    [adj  |-> w,
     df_l |-> tabs,
     ret  |-> IF ~m.ok THEN m
              ELSE IF daily /\ Len(date_index(w[1], w[2])) # Len(m.val)
              THEN Raised("ValueError: Length mismatch")     \* df.index = ...
              ELSE m]

average_years(w, tabs, daily) == index_df(w, tabs, mean_df(tabs), daily)

adjusted_data(w, n, daily) ==
    average_years(w, fetch_years(w, YearRange(w[1], n), 1, daily), daily)

\* returns the adjusted window, the per-year tables and the outcome
get_amedas_data(b, e, n, daily, t) == adjusted_data(date_adjust(b, e, daily, t), n, daily)


(***************************************************************************)
(* averagetemplist: the three sources                                      *)
(***************************************************************************)
past_temp_list(b, e, t) == get_amedas_data(b, e, 1, TRUE, t).ret

\* ftl = [(t1 + t2) / 2 for (t1, t2) in zip(max_tmp_l, min_tmp_l)]
zip_mean(maxs, mins) ==
    [k \in 1..Min(Len(maxs), Len(mins)) |-> Num((maxs[k] + mins[k]) * (Scale \div 2))]

forecast_temp_list(pg, bd, ed) == Returned(PySlice(zip_mean(pg.max, pg.min), bd - 1, ed))

\* date(d.year - 1, d.month, d.day) raises ValueError on 29 February
normal_temp_list(b, e, n, t) ==
    IF ~ValidDate(YearOf(b) - 1, MonthOf(b), DayOf(b))
           \/ ~ValidDate(YearOf(e) - 1, MonthOf(e), DayOf(e))
    THEN Raised("ValueError: day is out of range for month")
    ELSE get_amedas_data(Date(YearOf(b) - 1, MonthOf(b), DayOf(b)),
                         Date(YearOf(e) - 1, MonthOf(e), DayOf(e)), n, TRUE, t).ret

(***************************************************************************)
(* averagetemplist.ave_temp_list                                           *)
(***************************************************************************)
Horizon == 14

\* variant of SelectCase whose first test is strict: E = Y leaves Case 1
SelectCaseStrict(b, e, t) ==
    LET y == t - 1
        tw == t + 13
    IN  IF e < y THEN 1
        ELSE IF b <= y /\ e <= tw THEN 2
        ELSE IF b <= y /\ e > tw THEN 3
        ELSE IF y < b /\ b <= tw /\ e <= tw THEN 4
        ELSE IF y < b /\ b <= tw /\ tw < e THEN 5
        ELSE 6

\* which branch of the if/elif chain runs
SelectCase(b, e, t) ==
    LET y == t - 1
        tw == t + 13
    IN  IF e <= y THEN 1
        ELSE IF b <= y /\ e <= tw THEN 2
        ELSE IF b <= y /\ e > tw THEN 3
        ELSE IF y < b /\ b <= tw /\ e <= tw THEN 4
        ELSE IF y < b /\ b <= tw /\ tw < e THEN 5
        ELSE 6

Seg(src, lo, hi) == [src |-> src, lo |-> lo, hi |-> hi]

\* variant of Segments whose normal segment starts at TW instead of TW1
SegmentsOverlap(k, b, e, t) ==
    LET y == t - 1
        tw == t + 13
        d_by == b - y
        d_ey == e - y
    IN  CASE k = 1 -> <<Seg("past", b, e)>>
          [] k = 2 -> <<Seg("past", b, y), Seg("forecast", 1, d_ey)>>
          [] k = 3 -> <<Seg("past", b, y), Seg("forecast", 1, Horizon), Seg("normal", tw, e)>>
          [] k = 4 -> <<Seg("forecast", d_by, d_ey)>>
          [] k = 5 -> <<Seg("forecast", d_by, Horizon), Seg("normal", tw, e)>>
          [] OTHER -> <<Seg("normal", b, e)>>

\* the source calls of branch k, left to right, with their arguments
Segments(k, b, e, t) ==
    LET y == t - 1
        tw1 == t + 14
        d_by == b - y
        d_ey == e - y
    IN  CASE k = 1 -> <<Seg("past", b, e)>>
          [] k = 2 -> <<Seg("past", b, y), Seg("forecast", 1, d_ey)>>
          [] k = 3 -> <<Seg("past", b, y), Seg("forecast", 1, Horizon), Seg("normal", tw1, e)>>
          [] k = 4 -> <<Seg("forecast", d_by, d_ey)>>
          [] k = 5 -> <<Seg("forecast", d_by, Horizon), Seg("normal", tw1, e)>>
          [] OTHER -> <<Seg("normal", b, e)>>

call_source(sg, pg, n, t) ==
    CASE sg.src = "past" -> past_temp_list(sg.lo, sg.hi, t)
      [] sg.src = "forecast" -> forecast_temp_list(pg, sg.lo, sg.hi)
      [] OTHER -> normal_temp_list(sg.lo, sg.hi, n, t)

\* the call record kept in the state: dates shown as <<year, month, day>>
Shown(sg) ==
    IF sg.src = "forecast" THEN sg ELSE Seg(sg.src, Calendar[sg.lo], Calendar[sg.hi])

\* temp_list = call_1 + call_2 + ...: evaluated left to right, the first
\* exception ending the evaluation
RECURSIVE concat_sources(_, _, _, _, _, _)
after_call(segs, k, r, acc, pg, n, t) ==
    IF r.ok THEN concat_sources(segs, k + 1, [acc EXCEPT !.temp_list = @ \o r.val], pg, n, t)
    ELSE [acc EXCEPT !.raised = r]

concat_sources(segs, k, acc, pg, n, t) ==
    IF k > Len(segs) THEN acc
    ELSE after_call(segs, k, call_source(segs[k], pg, n, t),
                    [acc EXCEPT !.calls = Append(@, Shown(segs[k]))], pg, n, t)

\* strftime('%Y/%m/%d') as the number year * 10000 + month * 100 + day
date_list(b, len) ==
    [i \in 1..Max(len, 0) |-> YearOf(b + i - 1) * 10000 + MonthDay(b + i - 1)]

\* pd.Series(temp_list, index=date_list)
make_series(k, acc, idx) ==
    [kase  |-> k,
     calls |-> acc.calls,
     ret   |-> IF ~acc.raised.ok THEN acc.raised
               ELSE IF Len(acc.temp_list) # Len(idx)
               THEN Raised("ValueError: Length of values does not match length of index")
               ELSE Returned([index |-> idx, values |-> acc.temp_list])]

run_case(k, b, e, len, pg, n, t) ==
    make_series(k,
                concat_sources(Segments(k, b, e, t), 1,
                               [calls |-> <<>>, temp_list |-> <<>>, raised |-> Returned(<<>>)],
                               pg, n, t),
                date_list(b, len))

ave_temp_list(b, len, pg, n, t) ==
    run_case(SelectCase(b, b + len - 1, t), b, b + len - 1, len, pg, n, t)

(***************************************************************************)
(* Inputs                                                                  *)
(***************************************************************************)
MaxYears == 2       \* years / n_years range over 1..MaxYears
MaxBack == 70       \* get_amedas_data: e_date from today - MaxBack ...
MaxAhead == 2       \* ... to today + MaxAhead
MaxNeg == 2         \* spans e_date - b_date from -MaxNeg ...
ShortSpan == 35     \* ... to ShortSpan, and
LongSlack == 3      \* ClampDays - LongSlack .. ClampDays + LongSlack
MaxBefore == 15     \* ave_temp_list: b_date from today - MaxBefore ...
MaxAfter == 20      \* ... to today + MaxAfter
MaxLength == 20     \* length ranges over 1..MaxLength
Shortfall == 1      \* the forecast page supplies Horizon - Shortfall .. Horizon days
MaxShortfall == 2   \* forecast_temp_list alone: span lists as short as Horizon - MaxShortfall
MaxExtra == 1       \* ... and as long as Horizon + MaxExtra
MaxDayArg == 16     \* forecast_temp_list alone: b_day, e_day up to MaxDayArg
MaxN == 3           \* mean_df: 1..MaxN yearly tables
MaxRows == 1        \* mean_df: tables of 1..MaxRows cells
TableCells == 2     \* clean_df: cells per table
MaxDay == 31        \* hanjun: days of the month 1..MaxDay

Idle == <<>>

\* a forecast page whose lead day k has high k + 5 and low k - 5 degrees
forecast_page(nmax, nmin) ==
    [max |-> [k \in 1..nmax |-> k + 5], min |-> [k \in 1..nmin |-> k - 5]]

IdleDates == today = Idle /\ b_date = Idle /\ years = 0
IdleAmedas == e_date = Idle /\ is_daily = TRUE /\ adj = Idle /\ df_l = Idle
IdlePart == length = 0 /\ kase = 0 /\ calls = Idle
IdleForecast == b_day = 0 /\ e_day = 0
IdleFns == dfl = Idle /\ raw_df = Idle /\ day1 = 0 /\ day2 = 0

(***************************************************************************)
(* SpecAmedas, SpecMonths: one call of get_amedas_data                     *)
(***************************************************************************)
AmedasTodays == {Date(2024, 3, 6), Date(2024, 1, 3)}
ShortSpans == (0 - MaxNeg)..ShortSpan
LongSpans == (ClampDays - LongSlack)..(ClampDays + LongSlack)

AmedasInputs(spans, granularities) ==
    /\ pc = "get_amedas_data"
    /\ \E t \in AmedasTodays, back \in (0 - MaxAhead)..MaxBack, span \in spans :
          /\ today = Calendar[t]
          /\ e_date = Calendar[t - back]
          /\ b_date = Calendar[t - back - span]
    /\ is_daily \in granularities
    /\ years \in 1..MaxYears
    /\ adj = Idle /\ df_l = Idle /\ ret = Idle /\ page = Idle
    /\ IdlePart /\ IdleForecast /\ IdleFns

InitAmedas == AmedasInputs(ShortSpans \cup LongSpans, BOOLEAN)

\* daily windows of at most ShortSpan days
InitMonths == AmedasInputs(ShortSpans, {TRUE})

AmedasReturns(r) ==
    /\ adj' = <<Calendar[r.adj[1]], Calendar[r.adj[2]]>>
    /\ df_l' = r.df_l
    /\ ret' = r.ret

GetAmedasData ==
    /\ pc = "get_amedas_data"
    /\ AmedasReturns(get_amedas_data(Ord(b_date), Ord(e_date), years, is_daily, Ord(today)))
    /\ pc' = "done"
    /\ UNCHANGED <<today, b_date, e_date, is_daily, years, length, kase,
                   calls, page, b_day, e_day, dfl, raw_df, day1, day2>>

NextAmedas == GetAmedasData

SpecAmedas == InitAmedas /\ [][NextAmedas]_vars

SpecMonths == InitMonths /\ [][NextAmedas]_vars

(***************************************************************************)
(* Spec: one call of ave_temp_list                                         *)
(***************************************************************************)
Todays == {Date(2025, 4, 24), Date(2025, 2, 10), Date(2024, 3, 3), Date(2024, 2, 12)}

Init ==
    /\ pc = "ave_temp_list"
    /\ \E t \in Todays, off \in (0 - MaxBefore)..MaxAfter :
          today = Calendar[t] /\ b_date = Calendar[t + off]
    /\ length \in 1..MaxLength
    /\ years \in 1..MaxYears
    /\ \E n \in (Horizon - Shortfall)..Horizon : page = forecast_page(n, n)
    /\ kase = 0 /\ calls = Idle /\ ret = Idle
    /\ IdleAmedas /\ IdleForecast /\ IdleFns

SeriesReturns(r) == kase' = r.kase /\ calls' = r.calls /\ ret' = r.ret

AveTempList ==
    /\ pc = "ave_temp_list"
    /\ SeriesReturns(ave_temp_list(Ord(b_date), length, page, years, Ord(today)))
    /\ pc' = "done"
    /\ UNCHANGED <<today, b_date, e_date, is_daily, years, adj, df_l, length,
                   page, b_day, e_day, dfl, raw_df, day1, day2>>

Next == AveTempList

Spec == Init /\ [][Next]_vars

(***************************************************************************)
(* SpecForecast: one call of forecast_temp_list                            *)
(***************************************************************************)
InitForecast ==
    /\ pc = "forecast_temp_list"
    /\ \E nmax, nmin \in (Horizon - MaxShortfall)..(Horizon + MaxExtra) :
          page = forecast_page(nmax, nmin)
    /\ b_day \in 0..MaxDayArg
    /\ e_day \in 0..MaxDayArg
    /\ ret = Idle
    /\ IdleDates /\ IdleAmedas /\ IdlePart /\ IdleFns

ForecastTempList ==
    /\ pc = "forecast_temp_list"
    /\ ret' = forecast_temp_list(page, b_day, e_day)
    /\ pc' = "done"
    /\ UNCHANGED <<today, b_date, e_date, is_daily, years, adj, df_l, length, kase,
                   calls, page, b_day, e_day, dfl, raw_df, day1, day2>>

NextForecast == ForecastTempList

SpecForecast == InitForecast /\ [][NextForecast]_vars

(***************************************************************************)
(* SpecMean: one call of mean_df                                           *)
(***************************************************************************)
\* -1.5, 0.4 and 0.5 degrees, and the missing marker
MeanCells == {NaN, Num(0 - 15 * Tenth), Num(4 * Tenth), Num(5 * Tenth)}

InitMean ==
    /\ pc = "mean_df"
    /\ \E n \in 1..MaxN, rows \in 1..MaxRows : dfl \in [1..n -> [1..rows -> MeanCells]]
    /\ ret = Idle /\ page = Idle
    /\ raw_df = Idle /\ day1 = 0 /\ day2 = 0
    /\ IdleDates /\ IdleAmedas /\ IdlePart /\ IdleForecast

MeanDf ==
    /\ pc = "mean_df"
    /\ ret' = mean_df(dfl)
    /\ pc' = "done"
    /\ UNCHANGED <<today, b_date, e_date, is_daily, years, adj, df_l, length, kase,
                   calls, page, b_day, e_day, dfl, raw_df, day1, day2>>

NextMean == MeanDf

SpecMean == InitMean /\ [][NextMean]_vars

(***************************************************************************)
(* SpecClean: one call of clean_df                                         *)
(***************************************************************************)
Alphabet == Digits \cup {".", "-", ")", " ", "]", "/", "#", "x"}

Strings == UNION {[1..n -> Alphabet] : n \in 0..MaxLen}

InitClean ==
    /\ pc = "clean_df"
    /\ raw_df \in [1..TableCells -> {Text(s) : s \in Strings}]
    /\ ret = Idle /\ page = Idle
    /\ dfl = Idle /\ day1 = 0 /\ day2 = 0
    /\ IdleDates /\ IdleAmedas /\ IdlePart /\ IdleForecast

CleanDf ==
    /\ pc = "clean_df"
    /\ ret' = Returned(clean_df(raw_df))
    /\ pc' = "done"
    /\ UNCHANGED <<today, b_date, e_date, is_daily, years, adj, df_l, length, kase,
                   calls, page, b_day, e_day, dfl, raw_df, day1, day2>>

NextClean == CleanDf

SpecClean == InitClean /\ [][NextClean]_vars

(***************************************************************************)
(* SpecHanjun: the two calls of hanjun a pentad slice makes                *)
(***************************************************************************)
InitHanjun ==
    /\ pc = "hanjun"
    /\ day1 \in 1..MaxDay
    /\ day2 \in 1..MaxDay
    /\ ret = Idle /\ page = Idle
    /\ dfl = Idle /\ raw_df = Idle
    /\ IdleDates /\ IdleAmedas /\ IdlePart /\ IdleForecast

Hanjun ==
    /\ pc = "hanjun"
    /\ ret' = <<hanjun(day1), hanjun(day2)>>
    /\ pc' = "done"
    /\ UNCHANGED <<today, b_date, e_date, is_daily, years, adj, df_l, length, kase,
                   calls, page, b_day, e_day, dfl, raw_df, day1, day2>>

NextHanjun == Hanjun

SpecHanjun == InitHanjun /\ [][NextHanjun]_vars

(***************************************************************************)
(* Properties of ave_temp_list                                             *)
(***************************************************************************)
SeriesDone == pc = "done" /\ kase # 0

B == Ord(b_date)
E == Ord(b_date) + length - 1
Y == Ord(today) - 1
TW == Ord(today) + 13

FullPage == Len(page.max) = Horizon /\ Len(page.min) = Horizon

\* C1: with every monthly page complete and 14 forecast lead days,
\* ave_temp_list returns a series of exactly (E - B).days + 1 records.
C1_SeriesLength ==
    SeriesDone /\ FullPage => ret.ok /\ Len(ret.val.values) = E - B + 1

\* the six-row table of the specification
TableCond(i) ==
    CASE i = 1 -> E <= Y
      [] i = 2 -> B <= Y /\ Y < E /\ E <= TW
      [] i = 3 -> B <= Y /\ E > TW
      [] i = 4 -> Y < B /\ B <= TW /\ E <= TW
      [] i = 5 -> Y < B /\ B <= TW /\ TW < E
      [] OTHER -> B > TW

Sources == {calls[k].src : k \in 1..Len(calls)}

\* C2: the branch that runs is the one table row whose condition holds; the
\* rows are exclusive and exhaustive; the else branch runs only when B > TW;
\* E = Y runs Case 1 without a forecast call; B = Y + 1 with E <= TW runs
\* Case 4 with the forecast as its only source.
C2_CaseSelection ==
    SeriesDone =>
        /\ kase \in 1..6
        /\ \A i \in 1..6 : TableCond(i) <=> i = kase
        /\ (kase = 6 => B > TW)
        /\ (E = Y => kase = 1 /\ "forecast" \notin Sources)
        /\ (B = Y + 1 /\ E <= TW => kase = 4 /\ Sources = {"forecast"})

C2_Witness == SeriesDone /\ E = Y /\ B < E /\ kase = 1 /\ Sources = {"past"}

\* first and last calendar date of a requested sub-range; forecast lead
\* day k stands for the date Y + k
SegLo(c) == IF c.src = "forecast" THEN Y + c.lo ELSE Ord(c.lo)
SegHi(c) == IF c.src = "forecast" THEN Y + c.hi ELSE Ord(c.hi)

\* no source call raised, so every call of the branch was issued
AllIssued ==
    ret.ok \/ ret.err = "ValueError: Length of values does not match length of index"

\* C3: the sub-ranges requested from the sources start at B, each is
\* non-empty and begins the day after the one before it ends (chronological,
\* disjoint, without a gap), and the last one ends at E.
C3_Partition ==
    SeriesDone =>
        /\ Len(calls) >= 1
        /\ SegLo(calls[1]) = B
        /\ \A k \in 1..Len(calls) :
              /\ SegLo(calls[k]) <= SegHi(calls[k])
              /\ k > 1 => SegLo(calls[k]) = SegHi(calls[k - 1]) + 1
        /\ (AllIssued => SegHi(calls[Len(calls)]) = E)

C3_Witness ==
    /\ SeriesDone /\ kase = 3 /\ ret.ok
    /\ Len(calls) = 3 /\ SegHi(calls[2]) = TW /\ SegLo(calls[3]) = TW + 1

(***************************************************************************)
(* Properties of get_amedas_data                                           *)
(***************************************************************************)
AmedasDone == pc = "done" /\ adj # Idle

AdjB == Ord(adj[1])
AdjE == Ord(adj[2])

\* C4: date_adjust returns a window (b', e') with b' <= e' and
\* e' - b' <= 366 days, at daily and at pentad granularity.
C4_WindowClamped == AmedasDone => AdjB <= AdjE /\ AdjE - AdjB <= 366

\* the <<year, month>> pairs of the dates b..e
MonthsTouched(b, e) == {<<YearOf(n), MonthOf(n)>> : n \in b..e}

PagesFetched(b, e, year) ==
    LET ps == months_pages(b, e, year) IN {ps[k] : k \in 1..Len(ps)}

\* C10: a daily window returned by date_adjust spans at most two calendar
\* years, and get_months_df, fetching the window's own year, fetches a page
\* for every calendar month the window touches.
C10_EveryMonthFetched ==
    AmedasDone /\ is_daily =>
        /\ adj[2][1] - adj[1][1] <= 1
        /\ MonthsTouched(AdjB, AdjE) \subseteq PagesFetched(AdjB, AdjE, adj[1][1])

\* the row of the ideal page for the date <<year, month, day>>
RowOf(d) == Num((d[2] * 100 + d[3]) * Tenth)

\* C9: for a daily window [b, e] returned by date_adjust and every year
\* fetched, get_months_df returns (e - b).days + 1 rows, the first the row
\* of month/day b and the last the row of month/day e.
C9_SliceIsWindow ==
    AmedasDone /\ is_daily =>
        \A k \in 1..Len(df_l) :
            /\ Len(df_l[k]) = AdjE - AdjB + 1
            /\ df_l[k][1] = RowOf(adj[1])
            /\ df_l[k][Len(df_l[k])] = RowOf(adj[2])

(***************************************************************************)
(* Properties of forecast_temp_list                                        *)
(***************************************************************************)
ForecastDone == pc = "done" /\ page # Idle /\ kase = 0

Supplied == Min(Len(page.max), Len(page.min))

\* C7: forecast_temp_list fails when e_day exceeds the 14-day horizon or
\* the lead days the page supplies; it never returns a list shorter than
\* e_day - b_day + 1.
C7_HorizonEnforced ==
    ForecastDone /\ 1 <= b_day /\ b_day <= e_day =>
        /\ (e_day > Horizon \/ e_day > Supplied => ~ret.ok)
        /\ (ret.ok => Len(ret.val) = e_day - b_day + 1)

(***************************************************************************)
(* Properties of mean_df                                                   *)
(***************************************************************************)
MeanDone == pc = "done" /\ dfl # Idle

\* the years whose cell at position i is not missing
PresentYears(i) == {k \in 1..Len(dfl) : IsNum(dfl[k][i])}

RECURSIVE SumOver(_, _)
SumOver(ks, i) ==
    IF ks = {} THEN 0
    ELSE LET k == CHOOSE x \in ks : TRUE IN dfl[k][i].num + SumOver(ks \ {k}, i)

Abs(x) == IF x < 0 THEN 0 - x ELSE x

\* v is a whole number of tenths nearest to total / count
NearestTenth(v, total, count) ==
    v % Tenth = 0 /\ 2 * Abs(v * count - total) <= count * Tenth

\* C5: a cell missing in all N tables is missing in the output; otherwise
\* the output is the mean of exactly the non-missing values at the position,
\* rounded to one decimal.
C5_MeanIgnoresMissing ==
    MeanDone =>
        /\ ret.ok
        /\ Len(ret.val) = Len(dfl[1])
        /\ \A i \in 1..Len(dfl[1]) :
              IF PresentYears(i) = {} THEN IsNaN(ret.val[i])
              ELSE /\ IsNum(ret.val[i])
                   /\ NearestTenth(ret.val[i].num, SumOver(PresentYears(i), i),
                                   Cardinality(PresentYears(i)))

C5_Witness ==
    /\ MeanDone /\ ret.ok
    /\ \E i \in 1..Len(dfl[1]) :
          /\ PresentYears(i) # {} /\ PresentYears(i) # 1..Len(dfl)
          /\ IsNum(ret.val[i]) /\ ret.val[i].num # 0

(***************************************************************************)
(* Properties of clean_df                                                  *)
(***************************************************************************)
CleanDone == pc = "done" /\ raw_df # Idle

IsNumberText(s) == IsNum(to_numeric(s))

\* a number followed by one trailing annotation marker, ")" or " ]"
Annotated(s) ==
    \/ Len(s) >= 2 /\ s[Len(s)] = ")" /\ IsNumberText(SubSeq(s, 1, Len(s) - 1))
    \/ Len(s) >= 3 /\ s[Len(s) - 1] = " " /\ s[Len(s)] = "]"
           /\ IsNumberText(SubSeq(s, 1, Len(s) - 2))

AnnotatedNumber(s) ==
    IF s[Len(s)] = ")" THEN to_numeric(SubSeq(s, 1, Len(s) - 1))
    ELSE to_numeric(SubSeq(s, 1, Len(s) - 2))

\* what the specification's cleaning rules give for one raw text cell
Expected(s) ==
    IF s \in {<<"/", "/">>, <<"#">>} THEN NaN
    ELSE IF s = <<"-", "-">> THEN Num(0)
    ELSE IF IsNumberText(s) THEN to_numeric(s)
    ELSE IF Annotated(s) THEN AnnotatedNumber(s)
    ELSE NaN

\* C6: clean_df never raises, keeps the shape, and maps every cell by its
\* own text alone: "//" and "#" to missing, "--" to 0.0, a number to itself,
\* an annotated number to that number, any other text to missing.
C6_CleanTotal ==
    CleanDone =>
        /\ ret.ok
        /\ Len(ret.val) = Len(raw_df)
        /\ \A i \in 1..Len(raw_df) : ret.val[i] = Expected(raw_df[i].text)

(***************************************************************************)
(* Properties of hanjun                                                    *)
(***************************************************************************)
HanjunDone == pc = "done" /\ day1 # 0

\* p is the pentad of day d: floor((d - 1) / 5) + 1 up to day 30, then 6
IsPentadOf(p, d) ==
    IF d <= 30 THEN 5 * (p - 1) + 1 <= d /\ d <= 5 * p ELSE p = 6

\* C8: hanjun(d) is floor((d-1)/5)+1 for d <= 30 and 6 for d = 31, lies in
\* 1..6 and is non-decreasing in d; pentad(1)=1, pentad(5)=1, pentad(6)=2,
\* pentad(25)=5, pentad(30)=6, pentad(31)=6.
C8_PentadMapping ==
    HanjunDone =>
        /\ IsPentadOf(ret[1], day1) /\ IsPentadOf(ret[2], day2)
        /\ ret[1] \in 1..6 /\ ret[2] \in 1..6
        /\ (day1 <= day2 => ret[1] <= ret[2])
        /\ (day1 = 1 => ret[1] = 1) /\ (day1 = 5 => ret[1] = 1)
        /\ (day1 = 6 => ret[1] = 2) /\ (day1 = 25 => ret[1] = 5)
        /\ (day1 = 30 => ret[1] = 6) /\ (day1 = 31 => ret[1] = 6)

C8_Witness == HanjunDone /\ day1 = 30 /\ day2 = 31 /\ ret = <<6, 6>>
====
